---- MODULE Spec2Model ----
(***************************************************************************)
(* A state-machine model of Radio_continuum_validation.py: one run of      *)
(* main(), from the docopt arguments to the end of validate_cat.  Every    *)
(* call the driver makes on a collaborator (radio_image, catalogue,        *)
(* report, the helpers of functions.py) is appended to `calls` with the    *)
(* keyword arguments the driver passes, so that the order of the steps     *)
(* and the flags each step receives are state.                             *)
(***************************************************************************)
EXTENDS Integers, Sequences, FiniteSets, TLC

VARIABLES
    argv,       \* the docopt dictionary (args of process_args), fixed for the run
    filter_file,\* the key-value pairs stored in the --filter config file
    args,       \* parms, the dictionary returned by process_args
    pc,         \* position of the run inside main()
    idx,        \* index of the running for-loop (match_cat, validate_cat)
    cat,        \* the main catalogue object (cat_list, count)
    image,      \* the radio_image object, or None
    myReport,   \* the report object (metric_val)
    calls,      \* every collaborator call made so far, in program order
    raised      \* the exception that ended the run, "" when none

vars == <<argv, filter_file, args, pc, idx, cat, image, myReport, calls, raised>>

-----------------------------------------------------------------------------
(* Bounds of the model *)

\* longest --catalogues list
MaxCats == 2
\* largest number of cross-matched sources a reference catalogue can get
MaxCount == 2
\* --correct takes the levels 0..MaxLevel (0, 1, 2 are the documented ones)
MaxLevel == 3

-----------------------------------------------------------------------------
(* Values *)

\* A string is a sequence of tokens (so that str.strip can be computed);
\* Python's None is a value distinct from every string.
None == <<"<None>">>

\* the string 'None', docopt's default for an option that was not given
NotGiven == <<"None">>

\* flux_factor = 1.0, in hundredths (the flux ratios below use the same unit)
FluxUnity == 100

\* The default of --catalogues (docstring, line 30), split at the commas as
\* line 142 does.
DefaultCatalogues ==
    << <<"NVSS_config.txt">>,
       <<"SUMSS_config.txt">>,
       <<"GLEAM_config.txt">>,
       <<"TGSS_config.txt">> >>

\* The same list as a user may type it, with blanks around the commas
\* (line 247: "In case user put a space"), split at the commas.
TypedCatalogues ==
    << <<"NVSS_config.txt", " ">>,
       <<" ", "SUMSS_config.txt">>,
       <<" ", "GLEAM_config.txt", " ">>,
       <<" ", "TGSS_config.txt">> >>

Min(a, b) == IF a < b THEN a ELSE b

\* The lists config_files can be: the runs of consecutive files of the
\* default list, as given by default or as typed with blanks, and the empty
\* list (a glob pattern that matches nothing, line 139).
ConfigLists ==
    {SubSeq(given, i, j) :
        given \in {DefaultCatalogues, TypedCatalogues},
        i \in 1..(Min(MaxCats, Len(DefaultCatalogues)) + 1),
        j \in 0..Min(MaxCats, Len(DefaultCatalogues))}

\* What a filter config file can hold: criteria only, or criteria together
\* with keys named like the keyword arguments the driver sets itself.
FilterFiles ==
    { [flux_lim |-> "1e-2"],
      [flux_lim |-> "1e-2", redo |-> FALSE, write |-> TRUE] }

NoFilterFile == [flux_lim |-> "-"]

\* What report.validate can measure for one reference catalogue
\* (RA and DEC offsets, flux ratio in hundredths).
Measurements ==
    { [ra |-> 1, dec |-> 2, flux |-> 90],
      [ra |-> 0 - 1, dec |-> 3, flux |-> 110] }

ArgvSet ==
    [ fits       : {NotGiven, <<"img.fits">>},
      main       : {NotGiven, <<"main_config.txt">>},
      noise      : {NotGiven, <<"rms.fits">>},
      filter     : {NotGiven, <<"filter_config.txt">>},
      refind     : BOOLEAN,
      redo       : BOOLEAN,
      write      : BOOLEAN,
      nowrite    : BOOLEAN,
      correct    : 0..MaxLevel,
      catalogues : ConfigLists ]

-----------------------------------------------------------------------------
(* Helpers of functions.py and Python built-ins *)

\* parse_string: the docopt default 'None' becomes None
parse_string(s) == IF s = NotGiven THEN None ELSE s

\* new_path: prefix '../' to a path, None stays None
new_path(p) == IF p = None THEN None ELSE <<"../">> \o p

\* str.strip on a config file name
RECURSIVE lstrip(_)
lstrip(s) == IF s # <<>> /\ Head(s) = " " THEN lstrip(Tail(s)) ELSE s

RECURSIVE rstrip(_)
rstrip(s) ==
    IF s # <<>> /\ s[Len(s)] = " " THEN rstrip(SubSeq(s, 1, Len(s) - 1)) ELSE s

strip(s) == rstrip(lstrip(s))

\* dict.update: the keys of u override those of d
DictUpdate(d, u) ==
    [k \in DOMAIN d \cup DOMAIN u |-> IF k \in DOMAIN u THEN u[k] ELSE d[k]]

\* config2dic on the filter config file
config2dic_filter == filter_file

\* the name of the catalogue a reference config file describes
CatNameOf(file) ==
    CASE file = <<"NVSS_config.txt">>  -> "NVSS"
      [] file = <<"SUMSS_config.txt">> -> "SUMSS"
      [] file = <<"GLEAM_config.txt">> -> "GLEAM"
      [] file = <<"TGSS_config.txt">>  -> "TGSS"
      [] OTHER -> "?"

-----------------------------------------------------------------------------
(* process_args *)

\* lines 90-92 with "and" in place of "or" (a variant that lets a run without
\* image and catalogue through)
args_valid_and(a) ==
    ~(a.main = NotGiven /\ (a.fits = NotGiven /\ a.noise # NotGiven))

\* lines 90-92: the arguments that do not raise SyntaxError
args_valid(a) ==
    ~(a.main = NotGiven /\ (a.fits = NotGiven \/ a.noise # NotGiven))

\* line 127 without the forcing by refind (a variant)
redo_parm_unforced(a) == a.redo

\* line 127: refind forces redo
redo_parm(a) == a.redo \/ a.refind

\* line 129
write_any_parm(a) == ~a.nowrite

\* line 130 without lines 153-154 (a variant)
write_all_parm_unforced(a) == a.write

\* lines 130, 153-154: write_all is forced off when nothing may be written
write_all_parm(a) == IF ~write_any_parm(a) THEN FALSE ELSE a.write

\* lines 121-162: the parms dictionary
process_args(a) ==
    [ img             |-> parse_string(a.fits),
      refind          |-> a.refind,
      redo            |-> redo_parm(a),
      write_any       |-> write_any_parm(a),
      write_all       |-> write_all_parm(a),
      level           |-> a.correct,
      config_files    |-> a.catalogues,
      filter_config   |-> new_path(parse_string(a.filter)),
      main_cat_config |-> parse_string(a.main),
      noise           |-> new_path(parse_string(a.noise)) ]

-----------------------------------------------------------------------------
(* main: the order of its calls *)

\* main with lines 287 and 288 exchanged (a variant)
main_next_validate_first(stage) ==
    CASE stage = "process_args"   -> "create_cat"
      [] stage = "create_cat"     -> "filter_sources"
      [] stage = "filter_sources" -> "validate_cat"
      [] stage = "validate_cat"   -> "match_cat"
      [] stage = "match_cat"      -> "done"

\* lines 282-288: the stage main enters when a stage returns
main_next(stage) ==
    CASE stage = "process_args"   -> "create_cat"
      [] stage = "create_cat"     -> "filter_sources"
      [] stage = "filter_sources" -> "match_cat"
      [] stage = "match_cat"      -> "validate_cat"
      [] stage = "validate_cat"   -> "done"

\* the first value of idx when a stage is entered: validate_cat loops over
\* cat_list[1:], every other stage starts at the first element
first_idx(stage) == IF stage = "validate_cat" THEN 2 ELSE 1

NoCat == [bound |-> FALSE, name |-> "", cat_list |-> <<>>, count |-> <<>>]

NoReport ==
    [created |-> FALSE, html_end |-> FALSE,
     metric_val |-> [ra |-> 0, dec |-> 0, flux |-> FluxUnity]]

Init ==
    /\ argv \in ArgvSet
    /\ filter_file \in (IF argv.filter = NotGiven THEN {NoFilterFile} ELSE FilterFiles)
    /\ args = <<>>
    /\ pc = "process_args"
    /\ idx = 1
    /\ cat = NoCat
    /\ image = None
    /\ myReport = NoReport
    /\ calls = <<>>
    /\ raised = ""

\* main, line 282, and process_args, lines 86-162
do_process_args ==
    /\ pc = "process_args"
    /\ IF args_valid(argv)
       THEN /\ args' = process_args(argv)
            /\ pc' = main_next("process_args")
            /\ raised' = raised
       ELSE /\ args' = args
            /\ pc' = "exit"
            /\ raised' = "SystemExit"
    /\ UNCHANGED <<argv, filter_file, idx, cat, image, myReport, calls>>

\* main, line 285, and create_cat, lines 175-210.  find_file (line 203) either
\* finds the main catalogue config or raises.
do_create_cat ==
    /\ pc = "create_cat"
    /\ \E found \in (IF args.main_cat_config # None THEN BOOLEAN ELSE {TRUE}) :
        LET hasImg  == args.img # None
            useMain == args.main_cat_config # None
            img     == new_path(args.img)
            \* lines 178-181, 194
            opened  ==
                IF hasImg
                THEN << [op |-> "changeDir", path |-> args.img],
                        [op |-> "radio_image", img |-> img, rms_map |-> args.noise] >>
                ELSE << [op |-> "changeDir", path |-> args.main_cat_config] >>
            \* lines 184-185
            bane    ==
                IF hasImg /\ args.noise = None
                THEN << [op |-> "run_BANE", redo |-> args.refind] >>
                ELSE << >>
            \* lines 188-192
            aegean  ==
                IF hasImg /\ ~useMain
                THEN << [op |-> "run_Aegean", redo |-> args.refind,
                         write |-> args.write_any],
                        [op |-> "catalogue", finder |-> "aegean", image |-> img] >>
                ELSE << >>
            image1  == IF hasImg THEN img ELSE None
            cat1    ==
                IF hasImg /\ ~useMain
                THEN [bound |-> TRUE, name |-> "ASKAP",
                      cat_list |-> <<"ASKAP">>, count |-> <<>>]
                ELSE NoCat
            config  == new_path(args.main_cat_config)
            \* lines 197-208
            located == << [op |-> "find_file", file |-> config] >>
            loaded  ==
                << [op |-> "config2dic", file |-> config],
                   [op |-> "catalogue", finder |-> "config", image |-> image1] >>
            cat2    == [bound |-> TRUE, name |-> "MeerKAT",
                        cat_list |-> <<"MeerKAT">>, count |-> <<>>]
        IN  /\ image' = image1
            /\ IF useMain
               THEN IF found
                    THEN /\ calls' = calls \o opened \o bane \o aegean \o located \o loaded
                         /\ args' = [args EXCEPT !.main_cat_config = config]
                         /\ cat' = cat2
                         /\ pc' = main_next("create_cat")
                         /\ raised' = raised
                    ELSE /\ calls' = calls \o opened \o bane \o aegean \o located
                         /\ args' = [args EXCEPT !.main_cat_config = config]
                         /\ cat' = cat1
                         /\ pc' = "raised"
                         /\ raised' = "ConfigError"
               ELSE /\ calls' = calls \o opened \o bane \o aegean
                    /\ args' = args
                    /\ cat' = cat1
                    \* line 210: return cat, image
                    /\ IF cat1.bound
                       THEN pc' = main_next("create_cat") /\ raised' = raised
                       ELSE pc' = "raised" /\ raised' = "UnboundLocalError"
    /\ idx' = first_idx(main_next("create_cat"))
    /\ UNCHANGED <<argv, filter_file, myReport>>

\* lines 229-231: the keyword arguments of the config-driven quality filter
filter_kwargs(dic) ==
    DictUpdate(dic, [redo |-> args.redo, write |-> args.write_all])

\* main, line 286, and filter_sources, lines 213-237
do_filter_sources ==
    /\ pc = "filter_sources"
    /\ LET snr_cut ==
               << [op |-> "filter_sources", SNR |-> "snr", redo |-> args.redo,
                   write |-> args.write_any],
                  [op |-> "set_specs", image |-> image],
                  [op |-> "report", redo |-> args.redo, write |-> args.write_any] >>
           quality ==
               IF args.filter_config # None
               THEN << [op |-> "config2dic", file |-> args.filter_config],
                       DictUpdate([op |-> "filter_sources"],
                                  filter_kwargs(config2dic_filter)) >>
               ELSE << [op |-> "filter_sources", flux_lim |-> "1e-3",
                        ratio_frac |-> "1.4", reject_blends |-> TRUE, flags |-> TRUE,
                        psf_tol |-> "1.5", resid_tol |-> "3", redo |-> args.redo,
                        write |-> args.write_all] >>
       IN  calls' = calls \o snr_cut \o quality
    /\ myReport' = [myReport EXCEPT !.created = TRUE]
    /\ pc' = main_next("filter_sources")
    /\ idx' = first_idx(main_next("filter_sources"))
    /\ UNCHANGED <<argv, filter_file, args, cat, image, raised>>

\* what locating and processing one reference catalogue config can end in:
\* the file is not found, the file cannot be processed, or the catalogue is
\* cross-matched with n sources in common
MatchOutcomes == {"missing", "unreadable", "matched"}

\* main, line 287, and match_cat, lines 244-251: one iteration of the loop
match_cat_loop ==
    /\ pc = "match_cat"
    /\ idx <= Len(args.config_files)
    /\ LET config_file == strip(args.config_files[idx])
           located == [op |-> "find_file", file |-> config_file]
           matched == [op |-> "process_config_file", file |-> config_file,
                       redo |-> args.redo, write_all |-> args.write_all,
                       write_any |-> args.write_any]
           cat_name == CatNameOf(config_file)
       IN  \E outcome \in MatchOutcomes, n \in 0..MaxCount :
             \/ /\ outcome = "missing" /\ n = 0
                /\ calls' = Append(calls, located)
                /\ pc' = "raised" /\ raised' = "ConfigError"
                /\ UNCHANGED <<cat, idx>>
             \/ /\ outcome = "unreadable" /\ n = 0
                /\ calls' = calls \o <<located, matched>>
                /\ pc' = "raised" /\ raised' = "ConfigError"
                /\ UNCHANGED <<cat, idx>>
             \/ /\ outcome = "matched"
                /\ calls' = calls \o <<located, matched>>
                /\ cat' = [cat EXCEPT
                             !.cat_list = Append(@, cat_name),
                             !.count = DictUpdate(@, [k \in {cat_name} |-> n])]
                /\ idx' = idx + 1
                /\ UNCHANGED <<pc, raised>>
    /\ UNCHANGED <<argv, filter_file, args, image, myReport>>

\* line 255: the condition under which the spectra are fitted

fit_wanted(c) == Len(c.cat_list) > 1

\* match_cat, lines 253-258: after the loop
match_cat_fit ==
    /\ pc = "match_cat"
    /\ idx > Len(args.config_files)
    /\ calls' =
         IF fit_wanted(cat)
         THEN Append(calls, [op |-> "fit_spectra", redo |-> args.redo,
                             write |-> args.write_any])
         ELSE calls
    /\ pc' = main_next("match_cat")
    /\ idx' = first_idx(main_next("match_cat"))
    /\ UNCHANGED <<argv, filter_file, args, cat, image, myReport, raised>>

\* line 265: the condition under which a reference catalogue is validated
validate_wanted(c, cat_name) == c.count[cat_name] > 1

\* main, line 288, and validate_cat, lines 263-266: one iteration of the loop
validate_cat_loop ==
    /\ pc = "validate_cat"
    /\ idx <= Len(cat.cat_list)
    /\ LET cat_name == cat.cat_list[idx]
       IN  IF validate_wanted(cat, cat_name)
           THEN \E m \in Measurements :
                  /\ calls' = Append(calls, [op |-> "validate", name |-> cat.name,
                                             cat_name |-> cat_name, redo |-> args.redo])
                  /\ myReport' = [myReport EXCEPT !.metric_val = m]
           ELSE UNCHANGED <<calls, myReport>>
    /\ idx' = idx + 1
    /\ UNCHANGED <<argv, filter_file, args, pc, cat, image, raised>>

\* lines 272-274 with the flux ratio used from level 1 on (a variant)
flux_factor_from_level_1(level, metric_val) ==
    IF level >= 1 THEN metric_val.flux ELSE FluxUnity

\* lines 272-274: the flux factor handed to correct_img
flux_factor(level, metric_val) ==
    IF level = 2 THEN metric_val.flux ELSE FluxUnity

\* line 275: the levels at which the image is corrected
corrects(level) == level \in {1, 2}

\* validate_cat, lines 268-277: after the loop
validate_cat_end ==
    /\ pc = "validate_cat"
    /\ idx > Len(cat.cat_list)
    /\ myReport' = [myReport EXCEPT !.html_end = TRUE]
    /\ LET closed == [op |-> "write_html_end"]
           corrected ==
               [op |-> "correct_img", ra |-> myReport.metric_val.ra,
                dec |-> myReport.metric_val.dec,
                flux_factor |-> flux_factor(args.level, myReport.metric_val)]
       IN  IF corrects(args.level)
           THEN IF image # None
                THEN /\ calls' = calls \o <<closed, corrected>>
                     /\ pc' = main_next("validate_cat")
                     /\ raised' = raised
                ELSE \* image is None: image.correct_img raises
                     /\ calls' = Append(calls, closed)
                     /\ pc' = "raised"
                     /\ raised' = "AttributeError"
           ELSE /\ calls' = Append(calls, closed)
                /\ pc' = main_next("validate_cat")
                /\ raised' = raised
    /\ idx' = first_idx(main_next("validate_cat"))
    /\ UNCHANGED <<argv, filter_file, args, cat, image>>

Next ==
    \/ do_process_args
    \/ do_create_cat
    \/ do_filter_sources
    \/ match_cat_loop
    \/ match_cat_fit
    \/ validate_cat_loop
    \/ validate_cat_end

Spec == Init /\ [][Next]_vars

-----------------------------------------------------------------------------
(* Reading the record of calls *)

\* the positions in calls of the calls of one operation
Idx(op) == {i \in 1..Len(calls) : calls[i].op = op}

Called(op) == Idx(op) # {}

IsSnrFilter(c) == c.op = "filter_sources" /\ "SNR" \in DOMAIN c

IsQualityFilter(c) == c.op = "filter_sources" /\ "SNR" \notin DOMAIN c

\* process_args has returned parms (it neither is still to run nor has exited)
Proceeded == pc \notin {"process_args", "exit"}

\* the reference catalogues of cat_list (everything after the main catalogue)
References == {cat.cat_list[k] : k \in 2..Len(cat.cat_list)}

\* the run is over
Final == pc \in {"done", "exit", "raised"}

-----------------------------------------------------------------------------
(* C1 *)

\* C1: the image is corrected only at level 1 or 2; every correction passes
\* the measured RA and DEC offsets; the flux factor is exactly 1.0 at level 1
\* and is the measured Flux Ratio at level 2 (so a flux correction never
\* comes without the positional one).
C1_FluxOnlyWithPositions ==
    \A i \in Idx("correct_img") :
        /\ args.level \in {1, 2}
        /\ calls[i].ra = myReport.metric_val.ra
        /\ calls[i].dec = myReport.metric_val.dec
        /\ args.level = 1 => calls[i].flux_factor = FluxUnity
        /\ args.level = 2 => calls[i].flux_factor = myReport.metric_val.flux
        /\ calls[i].flux_factor # FluxUnity => args.level = 2

\* a level-1 run corrected the image after a validation measured a flux
\* ratio other than 1.0
C1_Witness ==
    /\ pc = "done"
    /\ args.level = 1
    /\ Called("validate")
    /\ myReport.metric_val.flux # FluxUnity
    /\ Called("correct_img")

-----------------------------------------------------------------------------
(* C2 *)

\* the steps the claim orders, numbered in the claimed order (0: other calls)
StepRank(c) ==
    CASE c.op = "catalogue"            -> 1
      [] IsSnrFilter(c)                -> 2
      [] IsQualityFilter(c)            -> 3
      [] c.op = "process_config_file"  -> 4
      [] c.op = "fit_spectra"          -> 5
      [] c.op = "validate"             -> 6
      [] c.op = "correct_img"          -> 7
      [] OTHER                         -> 0

\* the ranks of the ordered steps called so far, in program order
StepRanks ==
    LET steps == SelectSeq(calls, LAMBDA c : StepRank(c) > 0)
    IN  [k \in 1..Len(steps) |-> StepRank(steps[k])]

\* the files of the cross-matches made so far, in program order
CrossMatched ==
    LET steps == SelectSeq(calls, LAMBDA c : c.op = "process_config_file")
    IN  [k \in 1..Len(steps) |-> steps[k].file]

\* C2: the steps of a run happen in the order acquire, SNR filter, quality
\* filter, cross-matches in list order, spectral fit, validations, image
\* correction: the run starts with exactly one acquisition, one SNR filter
\* and one quality filter in that order, no call of a later step precedes a
\* call of an earlier one, the k-th cross-match is that of the k-th
\* configured file, the fit and the validations start only after all
\* configured files were cross-matched, and the correction only after every
\* validation.
C2_StepsInOrder ==
    LET ranks   == StepRanks
        matched == CrossMatched
    IN  /\ \A k \in 1..Len(ranks) :
             /\ k <= 3 => ranks[k] = k
             /\ k > 3 => ranks[k] > 3
             /\ k > 1 => ranks[k - 1] <= ranks[k]
        /\ Len(matched) > 0 =>
             /\ Len(matched) <= Len(args.config_files)
             /\ \A k \in 1..Len(matched) :
                   matched[k] = strip(args.config_files[k])
        /\ (Called("fit_spectra") \/ Called("validate") \/ Called("correct_img"))
             => Len(matched) = Len(args.config_files)
        /\ Called("correct_img")
             => \A n \in References :
                   validate_wanted(cat, n)
                     => \E i \in Idx("validate") : calls[i].cat_name = n

\* a finished run that cross-matched two catalogues, fitted, validated and
\* corrected the image
C2_Witness ==
    /\ pc = "done"
    /\ Cardinality(Idx("process_config_file")) = 2
    /\ Called("fit_spectra")
    /\ Cardinality(Idx("validate")) = 2
    /\ Called("correct_img")

-----------------------------------------------------------------------------
(* C6 *)

\* the steps after source finding that take a redo flag
RedoSteps ==
    {"filter_sources", "report", "process_config_file", "fit_spectra", "validate"}

\* C6: when --redo or --refind is given, every step after source finding is
\* called with redo true, whatever the filter config file holds; BANE and
\* Aegean are called with redo equal to --refind, so never forced by --redo
\* alone.
C6_RedoBypassesCache ==
    \A i \in 1..Len(calls) :
        /\ (calls[i].op \in RedoSteps /\ (argv.redo \/ argv.refind))
              => ("redo" \in DOMAIN calls[i] /\ calls[i].redo = TRUE)
        /\ calls[i].op \in {"run_BANE", "run_Aegean"}
              => calls[i].redo = argv.refind

\* a finished run with --refind alone and a filter config that names redo,
\* which found sources, filtered, cross-matched, fitted and validated
C6_Witness ==
    /\ pc = "done"
    /\ argv.refind /\ ~argv.redo
    /\ "redo" \in DOMAIN filter_file /\ args.filter_config # None
    /\ Called("run_BANE") /\ Called("run_Aegean")
    /\ Called("fit_spectra") /\ Called("validate")

-----------------------------------------------------------------------------
(* C7 *)

\* the steps that take a write flag
WriteSteps == {"run_Aegean", "filter_sources", "report", "fit_spectra"}

\* C7: the parameters satisfy write_all => write_any, and with --no-write
\* every step is called with its write flag(s) false, also when --write is
\* given.
C7_NoWriteWins ==
    /\ Proceeded => (args.write_all => args.write_any)
    /\ argv.nowrite =>
         \A i \in 1..Len(calls) :
            /\ calls[i].op \in WriteSteps
                 => ("write" \in DOMAIN calls[i] /\ calls[i].write = FALSE)
            /\ calls[i].op = "process_config_file"
                 => (calls[i].write_all = FALSE /\ calls[i].write_any = FALSE)

\* a finished run given both --write and --no-write, with a filter config
\* that names write, which ran Aegean, cross-matched and fitted
C7_Witness ==
    /\ pc = "done"
    /\ argv.write /\ argv.nowrite
    /\ "write" \in DOMAIN filter_file /\ args.filter_config # None
    /\ Called("run_Aegean") /\ Called("process_config_file")
    /\ Called("fit_spectra")

-----------------------------------------------------------------------------
(* C9 *)

\* C9: the run proceeds beyond process_args exactly when a main catalogue
\* config is given, or an image is given without a noise map; a run that
\* exits has called nothing; and whenever create_cat returns, it returns a
\* catalogue (cat is never left unbound).
C9_ArgsGuardCatalogue ==
    /\ pc # "process_args" =>
         (Proceeded <=>
            (argv.main # NotGiven \/ (argv.fits # NotGiven /\ argv.noise = NotGiven)))
    /\ pc = "exit" => (calls = <<>> /\ ~cat.bound)
    /\ raised # "UnboundLocalError"
    /\ pc \in {"filter_sources", "match_cat", "validate_cat", "done"} => cat.bound

\* create_cat has returned the Aegean catalogue of a run without main config
C9_Witness ==
    /\ pc = "filter_sources"
    /\ argv.main = NotGiven
    /\ cat.bound

-----------------------------------------------------------------------------
(* C3 *)

\* C3: once match_cat is over, the spectra have been fitted if and only if at
\* least two reference catalogues were matched (with the main catalogue and a
\* single matched reference the fit is skipped).
C3_FitIffTwoMatched ==
    pc \in {"validate_cat", "done"} =>
        (Called("fit_spectra") <=> Cardinality(References) >= 2)

-----------------------------------------------------------------------------
(* C4 *)

\* C4: an error raised for one reference catalogue config aborts only that
\* catalogue: at the end of a run that got as far as cross-matching, every
\* configured file has been located and the validation step has run.
C4_ErrorAbortsOnlyBranch ==
    (Final /\ myReport.created) =>
        /\ \A k \in 1..Len(args.config_files) :
              \E i \in Idx("find_file") :
                  calls[i].file = strip(args.config_files[k])
        /\ Called("write_html_end")

-----------------------------------------------------------------------------
(* C5 *)

\* C5: after validate_cat, metrics have been produced exactly once for every
\* reference catalogue of the matched catalogue list, those with too few
\* matched pairs included.
C5_MetricsOncePerPair ==
    myReport.html_end =>
        \A n \in References :
            Cardinality({i \in Idx("validate") : calls[i].cat_name = n}) = 1

-----------------------------------------------------------------------------
(* C8 *)

\* C8: a run at correction level 1 or 2 that ends has corrected the image and
\* then acquired, filtered, cross-matched and validated a second time.
C8_SecondIteration ==
    (pc = "done" /\ args.level \in {1, 2}) =>
        /\ Called("correct_img")
        /\ \E i \in Idx("correct_img") :
              /\ \E j \in Idx("catalogue") : j > i
              /\ \E j \in Idx("filter_sources") : j > i
              /\ \E j \in Idx("write_html_end") : j > i

-----------------------------------------------------------------------------
(* C10 *)

\* C10: no run reaches the image correction with image absent: at the
\* correction call of a level-1 or level-2 run an image handle exists, and
\* the call never fails on a missing image.
C10_CorrectionHasImage ==
    /\ (pc = "validate_cat" /\ idx > Len(cat.cat_list) /\ corrects(args.level))
          => image # None
    /\ raised # "AttributeError"
====
